---- MODULE Spec2Model ----
(***************************************************************************)
(* State-machine model of the todo-server request handlers:                *)
(*   src/unnamed/part_001  (routes/auth.js : register, login, user)        *)
(*   src/routes/tasks.js   (list, create, update, delete)                  *)
(*   src/unnamed/part_000  (the entry point that mounts both routers)      *)
(*                                                                         *)
(* A handler runs to its first store call when the request arrives and     *)
(* resumes when the store answers, so a handler with two store calls       *)
(* (register, list, update, delete) is two atomic steps with the request   *)
(* held in `inflight` in between; a handler with one store call is one     *)
(* step.  models/User, models/Task and middleware/auth are not among the   *)
(* sources; what the model needs of them is taken from the specification.  *)
(***************************************************************************)
EXTENDS Integers, Sequences, FiniteSets, TLC

VARIABLES
  users,     \* the User collection: set of [id, email, password, createdAt]
  tasks,     \* the Task collection: set of task documents
  taskIds,   \* number of task identifiers the store has generated
  now,       \* wall clock, in hours
  ticks,     \* number of clock advances so far
  issued,    \* tokens the server has signed and handed out
  inflight,  \* requests suspended between their two store calls
  nreq,      \* number of requests received so far
  resp       \* the response the last step sent (Silent if none)

vars == <<users, tasks, taskIds, now, ticks, issued, inflight, nreq, resp>>

(* ------------------------------ bounds --------------------------------- *)
MaxRequests == 4
MaxInflight == 2
MaxTasks == 2
MaxTicks == 1

(* ------------------------- request values ------------------------------ *)
\* JSON values of a request body or query string.  The text of a task field
\* or of a search pattern is a sequence of letters; an email or a password
\* is a string; a page or limit is the number its digits denote.
Undef == [t |-> "undefined"]
Str(s) == [t |-> "string", v |-> s]
\* A JSON number, kept with its decimal text.
Num(s) == [t |-> "number", v |-> s]

\* JavaScript truthiness of a task field or search pattern
\* (if (name) ..., if (search) ...): undefined and "" are falsy.
Truthy(x) == x.t = "string" /\ x.v # <<>>

Min(a, b) == IF a <= b THEN a ELSE b
Max(a, b) == IF a >= b THEN a ELSE b

(* ------------------------------ inputs --------------------------------- *)
WellFormedEmails == {"a@x.com", "b@x.com"}
EmailInputs == {Str(e) : e \in WellFormedEmails} \cup {Str("nobody")}
RegisterPasswords == {Str("abcdef"), Str("abc")}
LoginPasswords == {Undef, Str("abcdef"), Str("abc"), Num("123456")}

(* ------------------------ tokens and the gate -------------------------- *)
\* { expiresIn: '5h' }
TokenTTL == 5

NoToken == [kind |-> "none"]
\* jwt.sign(payload, process.env.JWT_SECRET, { expiresIn: '5h' }, cb)
Sign(uid, t) == [kind |-> "jwt", uid |-> uid, exp |-> t + TokenTTL, sig |-> "secret"]
Forged(uid, t) == [kind |-> "jwt", uid |-> uid, exp |-> t + TokenTTL, sig |-> "forged"]

\* The verifier of the auth gate: fails on a bad signature or an expired token.
Verify(tok, t) == tok.kind = "jwt" /\ tok.sig = "secret" /\ t < tok.exp

\* Tokens a client can put in the Authorization header.
Presentable == {NoToken} \cup issued \cup {Forged(1, now)}

\* Whether authMiddleware is mounted on a route of the two routers.
GatedMut(route) == route \in {"user", "list", "create", "put"}

Gated(route) == route \in {"user", "list", "create", "put", "delete"}

\* The identity the gate attaches to the request; 0 when it rejects (401).
AuthGate(tok, t) == IF Verify(tok, t) THEN tok.uid ELSE 0

\* The identity a handler reads from req.user.id.
ReqUser(route, tok, t) == AuthGate(tok, t)

\* Whether the request reaches the handler body.
Admitted(route, tok, t) == Gated(route) => AuthGate(tok, t) # 0

(* ----------------------------- responses ------------------------------- *)
NoData == [none |-> TRUE]

\* What a request's token is when it arrives (history, kept with the request
\* and its response): "valid", "none", "invalid" or "expired".
TokenState(tok, t) ==
  IF tok.kind # "jwt" THEN "none"
  ELSE IF tok.sig # "secret" THEN "invalid"
  ELSE IF t >= tok.exp THEN "expired" ELSE "valid"

\* The caller of a public route, and of a protected one.
Public == [uid |-> 0, token |-> "n/a"]
Caller(route, tok, t) == [uid |-> ReqUser(route, tok, t), token |-> TokenState(tok, t)]

\* A response of a handler body.  `uid` is the identity the gate attached
\* to the request (0 on the public routes).
Response(route, who, status, msg, data) ==
  [route |-> route, uid |-> who.uid, token |-> who.token, status |-> status,
   msg |-> msg, data |-> data, by |-> "handler"]

\* The gate's rejection; the handler body does not run.
Unauthorized(route, tok, t) ==
  [route |-> route, uid |-> 0, token |-> TokenState(tok, t), status |-> 401,
   msg |-> "denied", data |-> NoData, by |-> "gate"]

(* ------------------------------ users ---------------------------------- *)
\* The pre-save hook of the User model stores a hash of the password.
Hash(s) == "$2a$" \o s

\* express-validator: check('email').isEmail()
IsEmail(x) == x.t = "string" /\ x.v \in WellFormedEmails

\* express-validator: check('password').isLength({ min: 6 }) on the text of the value
IsLength6(x) == x.t # "undefined" /\ Len(x.v) >= 6

\* express-validator: check('password').exists()
Exists(x) == x.t # "undefined"

\* User.findOne({ email })
FindUserByEmailMut(email) == {}

FindUserByEmail(email) == {u \in users : u.email = email.v}

\* The unique index on email of the User model: whether an insert passes.
UniqueEmail(email) == \A u \in users : u.email # email.v

\* `resp` is the response the last step sent, if it sent one.
Silent == Response("none", Public, 0, "", NoData)

Init ==
  /\ users = {}
  /\ tasks = {}
  /\ taskIds = 0
  /\ now = 0
  /\ ticks = 0
  /\ issued = {}
  /\ inflight = {}
  /\ nreq = 0
  /\ resp = Silent

CanStart == nreq < MaxRequests
CanSuspend == Cardinality(inflight) < MaxInflight

Reply(r) == resp' = r

NoReply == resp' = Silent

\* Time passes.
Tick ==
  /\ ticks < MaxTicks
  /\ \E d \in {1, TokenTTL} : now' = now + d
  /\ ticks' = ticks + 1
  /\ NoReply
  /\ UNCHANGED <<users, tasks, taskIds, issued, inflight, nreq>>

(* ------------------------- POST /auth/register ------------------------- *)
RegisterMsgExists == "User already exists"

\* Validation, then User.findOne({ email }).
RegisterStart(email, password) ==
  /\ CanStart
  /\ nreq' = nreq + 1
  /\ LET rid == nreq + 1 IN
     IF ~(IsEmail(email) /\ IsLength6(password))
     THEN /\ Reply(Response("register", Public, 400, "validation", [email |-> email, password |-> password]))
          /\ UNCHANGED inflight
     ELSE IF FindUserByEmail(email) # {}
     THEN /\ Reply(Response("register", Public, 400, RegisterMsgExists, [email |-> email, password |-> password]))
          /\ UNCHANGED inflight
     ELSE /\ CanSuspend
          /\ inflight' = inflight \cup
               {[rid |-> rid, route |-> "register", email |-> email, password |-> password]}
          /\ NoReply
  /\ UNCHANGED <<users, tasks, taskIds, now, ticks, issued>>

\* user.save(), then jwt.sign and the response; a rejected save is caught
\* and answered 500.
RegisterSave(r) ==
  /\ r \in inflight /\ r.route = "register"
  /\ inflight' = inflight \ {r}
  /\ IF UniqueEmail(r.email)
     THEN LET uid == Cardinality(users) + 1
              tok == Sign(uid, now)
          IN /\ users' = users \cup
                  {[id |-> uid, email |-> r.email.v, password |-> Hash(r.password.v),
                    createdAt |-> now]}
             /\ issued' = issued \cup {tok}
             /\ Reply(Response("register", Public, 200, "User registered successfully",
                               [email |-> r.email, password |-> r.password, token |-> tok]))
     ELSE /\ Reply(Response("register", Public, 500, "Server error",
                            [email |-> r.email, password |-> r.password]))
          /\ UNCHANGED <<users, issued>>
  /\ UNCHANGED <<tasks, taskIds, now, ticks, nreq>>

(* --------------------------- POST /auth/login -------------------------- *)
LoginMsgNoUser == "Invalid credentials"

LoginMsgBadPassword == "Invalid credentials"

\* bcrypt.compare(password, user.password): "match", "mismatch", or "throws"
\* when the candidate is not a string.
Compare(password, hash) ==
  IF password.t # "string" THEN "throws"
  ELSE IF Hash(password.v) = hash THEN "match" ELSE "mismatch"

\* Whether a candidate is the password the user registered (history: the
\* handler never sees this, it only sees what bcrypt.compare answers).
IsPasswordOf(password, user) == password.t = "string" /\ Hash(password.v) = user.password

\* The whole handler: its one store call is User.findOne({ email }).
\* `cause` (history) says which check the request would fail.
Login(email, password) ==
  /\ CanStart
  /\ nreq' = nreq + 1
  /\ LET req == [email |-> email, password |-> password]
         found == FindUserByEmail(email)
     IN
     IF ~(IsEmail(email) /\ Exists(password))
     THEN /\ Reply(Response("login", Public, 400, "validation", req @@ [cause |-> "validation"]))
          /\ UNCHANGED issued
     ELSE IF found = {}
     THEN /\ Reply(Response("login", Public, 400, LoginMsgNoUser, req @@ [cause |-> "unknown email"]))
          /\ UNCHANGED issued
     ELSE LET user == CHOOSE u \in found : TRUE
              isMatch == Compare(password, user.password)
              cause == IF IsPasswordOf(password, user) THEN "none" ELSE "wrong password"
          IN CASE isMatch = "throws" ->
                    /\ Reply(Response("login", Public, 500, "Server error", req @@ [cause |-> cause]))
                    /\ UNCHANGED issued
               [] isMatch = "mismatch" ->
                    /\ Reply(Response("login", Public, 400, LoginMsgBadPassword, req @@ [cause |-> cause]))
                    /\ UNCHANGED issued
               [] isMatch = "match" ->
                    LET tok == Sign(user.id, now) IN
                    /\ Reply(Response("login", Public, 200, "", req @@ [cause |-> cause, token |-> tok]))
                    /\ issued' = issued \cup {tok}
  /\ UNCHANGED <<users, tasks, taskIds, now, ticks, inflight>>

(* ---------------------------- GET /auth/user --------------------------- *)
\* User.findById(req.user.id).select('-password')
GetUser(tok) ==
  /\ CanStart
  /\ nreq' = nreq + 1
  /\ LET who == Caller("user", tok, now)
         uid == who.uid
     IN
     IF ~Admitted("user", tok, now)
     THEN Reply(Unauthorized("user", tok, now))
     ELSE Reply(Response("user", who, 200, "",
                         [user |-> {[id |-> u.id, email |-> u.email, createdAt |-> u.createdAt] :
                                      u \in {x \in users : x.id = uid}}]))
  /\ UNCHANGED <<users, tasks, taskIds, now, ticks, issued, inflight>>

(* ------------------------------ tasks ---------------------------------- *)
Fields == {"name", "description", "status", "dueDate"}

\* Lower-case form of a letter, for the 'i' option of the name filter.
Lower(c) ==
  CASE c = "F" -> "f"
    [] c = "O" -> "o"
    [] c = "B" -> "b"
    [] OTHER -> c

LowerAll(s) == [i \in 1..Len(s) |-> Lower(s[i])]

\* { $regex: search, $options: 'i' } for a pattern of plain letters:
\* the name contains the pattern, letter case ignored.
RegexI(name, pattern) ==
  \E i \in 1..(Len(name) - Len(pattern) + 1) :
    LowerAll(SubSeq(name, i, i + Len(pattern) - 1)) = LowerAll(pattern)

\* const query = { user: req.user.id }; plus name and status when truthy.
Query(uid, q) == [user |-> uid, search |-> q.search, status |-> q.status]

Matches(t, query) ==
  /\ t.user = query.user
  /\ Truthy(query.search) => RegexI(t.name.v, query.search.v)
  /\ Truthy(query.status) => t.status = query.status

\* Task.find(query) / Task.countDocuments(query) on a collection.
Find(coll, query) == {t \in coll : Matches(t, query)}

CountDocuments(coll, query) == Cardinality(Find(coll, query))

\* const { page = 1, limit = 10, ... } = req.query
DefaultPage == 1
DefaultLimit == 10

PageOf(q) == IF q.page = Undef THEN DefaultPage ELSE q.page.v
LimitOf(q) == IF q.limit = Undef THEN DefaultLimit ELSE q.limit.v

\* sortOptions: [key, direction]; direction -1 is descending.
SortOptions(q) ==
  IF q.sortBy # Undef
  THEN <<q.sortBy.v, IF q.sortOrder = Str("desc") THEN -1 ELSE 1>>
  ELSE <<"createdAt", -1>>

\* All orders of a finite set.
RECURSIVE Perms(_)
Perms(S) ==
  IF S = {} THEN {<<>>}
  ELSE UNION {{<<x>> \o p : p \in Perms(S \ {x})} : x \in S}

InOrder(a, b, opts) ==
  IF opts[2] = -1 THEN a[opts[1]] >= b[opts[1]] ELSE a[opts[1]] <= b[opts[1]]

IsSorted(s, opts) == \A i \in 1..(Len(s) - 1) : InOrder(s[i], s[i + 1], opts)

\* .sort(sortOptions): the store may return documents with equal keys in
\* any order.
Sorted(S, opts) == {s \in Perms(S) : IsSorted(s, opts)}

\* .skip((page - 1) * limit)
SkipMut(q) == PageOf(q) * LimitOf(q)

Skip(q) == (PageOf(q) - 1) * LimitOf(q)

\* .limit(limit * 1).skip(...) applied to the sorted matches.
Paginate(s, q) == SubSeq(s, Skip(q) + 1, Min(Skip(q) + LimitOf(q), Len(s)))

\* Math.ceil(count / limit)
TotalPages(count, q) == (count + LimitOf(q) - 1) \div LimitOf(q)

\* A path parameter :id; `ok` says whether it has the form of a store
\* identifier.  Task.findById rejects (throws) when it has not.
PathId(n) == [ok |-> TRUE, n |-> n]
BadPathId == [ok |-> FALSE, n |-> 0]

FindById(coll, id) == {t \in coll : id.ok /\ t.id = id.n}

\* if (name) taskFields.name = name; ... : the truthy fields of the body.
TaskFieldsMut(body) == [f \in {g \in Fields : body[g] # Undef} |-> body[f]]

TaskFields(body) == [f \in {g \in Fields : Truthy(body[g])} |-> body[f]]

\* if (task.user.toString() !== req.user.id) return 401
OwnsMut(t, uid) == TRUE

Owns(t, uid) == t.user = uid

\* { $set: taskFields } applied to one document.
SetFields(t, taskFields) ==
  [k \in DOMAIN t |-> IF k \in DOMAIN taskFields THEN taskFields[k] ELSE t[k]]

\* user: req.user.id in new Task({...}); the body's own `user` is not read.
NewTaskOwnerMut(body, uid) == IF body.user # 0 THEN body.user ELSE uid

NewTaskOwner(body, uid) == uid

\* check('name', 'Name is required').not().isEmpty()
NameGiven(body) == body.name.t = "string" /\ body.name.v # <<>>

(* ------------------------------ GET /tasks ----------------------------- *)
\* Gate, then Task.find(query).sort().limit().skip().exec().
\* `seen` (history) is the collection as the find saw it.
ListFind(tok, q) ==
  /\ CanStart
  /\ nreq' = nreq + 1
  /\ LET rid == nreq + 1
         who == Caller("list", tok, now)
         uid == who.uid
     IN
     IF ~Admitted("list", tok, now)
     THEN /\ Reply(Unauthorized("list", tok, now))
          /\ UNCHANGED inflight
     ELSE /\ CanSuspend
          /\ \E s \in Sorted(Find(tasks, Query(uid, q)), SortOptions(q)) :
               inflight' = inflight \cup
                 {[rid |-> rid, route |-> "list", uid |-> uid, token |-> who.token, q |-> q,
                   tasks |-> Paginate(s, q), seen |-> tasks]}
          /\ NoReply
  /\ UNCHANGED <<users, tasks, taskIds, now, ticks, issued>>

\* Task.countDocuments(query), then the response.
ListCount(r) ==
  /\ r \in inflight /\ r.route = "list"
  /\ inflight' = inflight \ {r}
  /\ Reply(Response("list", r, 200, "",
                    [tasks |-> r.tasks,
                     totalPages |-> TotalPages(CountDocuments(tasks, Query(r.uid, r.q)), r.q),
                     currentPage |-> PageOf(r.q)]))
  /\ UNCHANGED <<users, tasks, taskIds, now, ticks, issued, nreq>>

(* ------------------------------ POST /tasks ---------------------------- *)
\* Gate, validation, newTask.save().  `creator` (history) is the identity
\* the gate attached to the creating request.
Create(tok, body) ==
  /\ CanStart
  /\ nreq' = nreq + 1
  /\ LET who == Caller("create", tok, now)
         uid == who.uid
     IN
     IF ~Admitted("create", tok, now)
     THEN /\ Reply(Unauthorized("create", tok, now))
          /\ UNCHANGED <<tasks, taskIds>>
     ELSE IF ~NameGiven(body)
     THEN /\ Reply(Response("create", who, 400, "validation", NoData))
          /\ UNCHANGED <<tasks, taskIds>>
     ELSE /\ taskIds < MaxTasks
          /\ LET task == [id |-> taskIds + 1, name |-> body.name,
                          description |-> body.description, status |-> body.status,
                          dueDate |-> body.dueDate, user |-> NewTaskOwner(body, uid),
                          createdAt |-> now, creator |-> uid]
             IN /\ tasks' = tasks \cup {task}
                /\ taskIds' = taskIds + 1
                /\ Reply(Response("create", who, 200, "task added successfully",
                                  [claimed |-> body.user, task |-> task]))
  /\ UNCHANGED <<users, now, ticks, issued, inflight>>

(* ----------------------- PUT and DELETE /tasks/:id --------------------- *)
\* Gate, then Task.findById and the checks both handlers make on it:
\* a rejected lookup is caught (500), no task 404, another owner 401.
\* `op` is what the request carries on when the checks pass.
Lookup(route, tok, id, op) ==
  /\ CanStart
  /\ nreq' = nreq + 1
  /\ LET rid == nreq + 1
         who == Caller(route, tok, now)
         uid == who.uid
         found == FindById(tasks, id)
         req == [id |-> id]
     IN
     IF ~Admitted(route, tok, now)
     THEN /\ Reply(Unauthorized(route, tok, now))
          /\ UNCHANGED inflight
     ELSE IF ~id.ok
     THEN /\ Reply(Response(route, who, 500, "Server error", req))
          /\ UNCHANGED inflight
     ELSE IF found = {}
     THEN /\ Reply(Response(route, who, 404, "Task not found", req))
          /\ UNCHANGED inflight
     ELSE IF ~Owns(CHOOSE t \in found : TRUE, uid)
     THEN /\ Reply(Response(route, who, 401, "Not authorized", req))
          /\ UNCHANGED inflight
     ELSE /\ CanSuspend
          /\ inflight' = inflight \cup {[rid |-> rid, route |-> route, uid |-> uid, token |-> who.token, id |-> id]
                                         @@ op}
          /\ NoReply
  /\ UNCHANGED <<users, tasks, taskIds, now, ticks, issued>>

PutFind(tok, id, body) == Lookup("put", tok, id, [body |-> body])

\* Task.findByIdAndUpdate(id, { $set: taskFields }, { new: true }), then
\* res.json(task): the updated document, or null when there is none.
PutUpdate(r) ==
  /\ r \in inflight /\ r.route = "put"
  /\ inflight' = inflight \ {r}
  /\ LET found == FindById(tasks, r.id)
         updated == {SetFields(t, TaskFields(r.body)) : t \in found}
     IN /\ tasks' = (tasks \ found) \cup updated
        /\ Reply(Response("put", r, 200, "",
                          [id |-> r.id, task |-> updated]))
  /\ UNCHANGED <<users, taskIds, now, ticks, issued, nreq>>

DeleteFind(tok, id) == Lookup("delete", tok, id, [body |-> Undef])

\* Task.findByIdAndDelete(id), then { msg: 'Task removed' }.
DeleteRemove(r) ==
  /\ r \in inflight /\ r.route = "delete"
  /\ inflight' = inflight \ {r}
  /\ tasks' = tasks \ FindById(tasks, r.id)
  /\ Reply(Response("delete", r, 200, "Task removed", [id |-> r.id]))
  /\ UNCHANGED <<users, taskIds, now, ticks, issued, nreq>>

(* ------------------------------ inputs --------------------------------- *)
\* Request bodies and queries of the full system (Spec).
Body(n, d, s, due) == [name |-> n, description |-> d, status |-> s, dueDate |-> due]

CreateBodies ==
  {Body(Str(<<"F", "o">>), Undef, Undef, Undef) @@ [user |-> 0],
   Body(Str(<<"b">>), Undef, Str(<<"d", "o">>), Undef) @@ [user |-> 2],
   Body(Undef, Undef, Undef, Undef) @@ [user |-> 0]}

PutBodies ==
  {Body(Undef, Undef, Str(<<"d", "o">>), Undef),
   Body(Str(<<"b">>), Str(<<>>), Undef, Undef)}

PathIds == {PathId(n) : n \in 1..MaxTasks} \cup {BadPathId}

Q(p, l, s, st, sb, so) ==
  [page |-> p, limit |-> l, search |-> s, status |-> st, sortBy |-> sb, sortOrder |-> so]

ListQueries ==
  {Q(Undef, Undef, Undef, Undef, Undef, Undef),
   Q(Str(2), Str(1), Undef, Undef, Undef, Undef)}

Credentials == {<<Str("a@x.com"), Str("abcdef")>>, <<Str("b@x.com"), Str("abcdef")>>}

\* Every combination of absent, falsy and truthy fields (SpecUpdate).
FieldInputs(f) ==
  CASE f = "name" -> {Undef, Str(<<>>), Str(<<"b">>)}
    [] f = "description" -> {Undef, Str(<<>>), Str(<<"t">>)}
    [] f = "status" -> {Undef, Str(<<>>), Str(<<"d", "o">>)}
    [] f = "dueDate" -> {Undef, Str(<<>>), Str(<<"1", "2">>)}

AllPutBodies ==
  {Body(n, d, s, due) : n \in FieldInputs("name"), d \in FieldInputs("description"),
                        s \in FieldInputs("status"), due \in FieldInputs("dueDate")}

\* Pages, limits, filters and sort orders (SpecList).
AllListQueries ==
  {Q(p, l, f[1], f[2], so[1], so[2]) :
     p \in {Undef, Str(2), Str(3)}, l \in {Undef, Str(1), Str(2)},
     f \in {<<Undef, Undef>>, <<Str(<<"f", "O">>), Undef>>, <<Undef, Str(<<"d", "o">>)>>},
     so \in {<<Undef, Undef>>, <<Str("createdAt"), Undef>>, <<Str("createdAt"), Str("desc")>>}}

ListCreateBodies ==
  {Body(Str(<<"F", "o">>), Undef, Undef, Undef) @@ [user |-> 0],
   Body(Str(<<"b", "f", "o">>), Undef, Str(<<"d", "o">>), Undef) @@ [user |-> 0],
   Body(Str(<<"b">>), Undef, Str(<<"d", "o">>), Undef) @@ [user |-> 0]}

(* ------------------------------- claims -------------------------------- *)
\* A PUT or DELETE for path id `id` arriving with token `tok`.
Targets(tok, id) == (\E body \in PutBodies : PutFind(tok, id, body)) \/ DeleteFind(tok, id)

ListedTo(list, uid) == \A i \in 1..Len(list) : list[i].creator = uid

C1_ListsScoped ==
  /\ \A r \in inflight : r.route = "list" => ListedTo(r.tasks, r.uid)
  /\ (resp.route = "list" /\ resp.by = "handler") => ListedTo(resp.data.tasks, resp.uid)

C1_OnlyCreatorMutates ==
  /\ \A t \in tasks : t \notin tasks' =>
       \E r \in inflight \ inflight' : r.route \in {"put", "delete"} /\ r.uid = t.creator
  /\ \A r \in inflight' \ inflight : r.route \in {"put", "delete"} =>
       \E t \in tasks : t.id = r.id.n /\ t.creator = r.uid
  /\ (/\ resp'.route \in {"put", "delete"} /\ resp'.token = "valid"
      /\ inflight' = inflight
      /\ \E t \in tasks : resp'.data.id.ok /\ t.id = resp'.data.id.n /\ t.creator # resp'.uid)
     => (resp'.status = 401 /\ resp'.by = "handler" /\ tasks' = tasks)

\* C1: per-user isolation.  No list result (fetched or sent) holds a task
\* created with another user's token; a task changes or disappears only in
\* the second step of a PUT or DELETE of its creator; and a PUT or DELETE
\* arriving with another user's valid token for an existing task does not
\* go on to its second step: it is answered 401 by the handler and changes
\* nothing.
C1_Isolation == [][C1_ListsScoped' /\ C1_OnlyCreatorMutates]_vars

\* C1 witness: a PUT or DELETE was just answered 401 by the handler and the
\* task it named is still stored, created by somebody else.
C1_Witness ==
  /\ resp.route \in {"put", "delete"} /\ resp.by = "handler" /\ resp.status = 401
  /\ \E t \in tasks : t.id = resp.data.id.n /\ t.creator # resp.uid /\ resp.uid # 0

\* C6: a PUT or DELETE with a valid token is answered 404 when no task has
\* the id of the path and 401 when the task belongs to another user, and in
\* both cases the task store is unchanged.
C6_FailureModes ==
  [][\A tok \in Presentable, id \in PathIds :
       (Verify(tok, now) /\ Targets(tok, id)) =>
         /\ (\A t \in tasks : ~(id.ok /\ t.id = id.n)) =>
              (resp'.status = 404 /\ tasks' = tasks)
         /\ (\E t \in tasks : id.ok /\ t.id = id.n /\ t.user # tok.uid) =>
              (resp'.status = 401 /\ tasks' = tasks)]_vars

ProtectedRoutes == {"user", "list", "create", "put", "delete"}

\* C7: a request for GET/POST /tasks, PUT/DELETE /tasks/:id or GET /auth/user
\* that carries no token, an invalid token or an expired one is answered 401
\* by the gate and nothing stored changes; its handler body does not run:
\* every handler response and every suspended handler is of a request whose
\* token was valid.
C7_GateFirst ==
  [][/\ (resp'.route \in ProtectedRoutes /\ resp'.token # "valid") =>
          /\ resp'.status = 401 /\ resp'.by = "gate"
          /\ UNCHANGED <<users, tasks, taskIds, issued, inflight>>
     /\ \A r \in inflight' : r.route \in ProtectedRoutes => r.token = "valid"]_vars

\* C7 witness: a once valid token, now expired, was just refused on DELETE.
C7_Witness ==
  /\ resp.route = "delete" /\ resp.status = 401 /\ resp.by = "gate"
  /\ resp.token = "expired"

\* C8: every stored task has one owner, the identity authenticated for the
\* POST /tasks that created it, whatever `user` that request's body carried
\* and whatever PUTs followed; and the task a create returns has that owner.
C8_OwnerInvariant ==
  /\ \A t \in tasks : t.user = t.creator /\ t.user \in {u.id : u \in users}
  /\ \A t1, t2 \in tasks : t1.id = t2.id => t1 = t2
  /\ (resp.route = "create" /\ resp.status = 200) => resp.data.task.user = resp.uid

\* C8 witness: a task was just created by a request whose body named
\* another user as owner.
C8_Witness ==
  /\ resp.route = "create" /\ resp.status = 200
  /\ resp.data.claimed # 0 /\ resp.data.claimed # resp.uid
  /\ resp.data.task \in tasks

\* C9: a PUT answered 200 returns the updated task: a record, stored, and
\* never null.
C9_UpdateReturnsTask ==
  (resp.route = "put" /\ resp.by = "handler" /\ resp.status = 200) =>
    (resp.data.task # {} /\ resp.data.task \subseteq tasks)


\* C2: POST /auth/register with an email that a stored user already has is
\* answered 400 by the handler, whether the password is valid or not; no
\* user is stored, no token is signed and the request does not go on.
C2_DuplicateRegister ==
  [][\A e \in EmailInputs, p \in RegisterPasswords :
       (RegisterStart(e, p) /\ \E u \in users : u.email = e.v) =>
         /\ resp'.route = "register" /\ resp'.status = 400
         /\ "token" \notin DOMAIN resp'.data
         /\ UNCHANGED <<users, issued, inflight>>]_vars

\* C2 witness: a register with a stored email and a password that is too
\* short was just answered 400.
C2_Witness ==
  /\ resp.route = "register" /\ resp.status = 400
  /\ resp.data.password = Str("abc")
  /\ \E u \in users : u.email = resp.data.email.v

\* C3: a login with a well-formed email and a present password that fails
\* because the email is unknown, or because the password is not the user's,
\* is answered 400 'Invalid credentials' without a token in both cases.
C3_SameFailure ==
  (resp.route = "login" /\ resp.data.cause \in {"unknown email", "wrong password"}) =>
    /\ resp.status = 400 /\ resp.msg = "Invalid credentials"
    /\ "token" \notin DOMAIN resp.data

\* C10: however registrations with one email interleave, no two stored
\* users share an email, the token of a successful registration is the
\* stored user's, and a registration is never answered 500: the losers are
\* answered 400 'User already exists'.
C10_ConcurrentRegister ==
  /\ \A u1, u2 \in users : u1.email = u2.email => u1 = u2
  /\ (resp.route = "register" /\ resp.status = 200) =>
       \E u \in users : u.email = resp.data.email.v /\ u.id = resp.data.token.uid
  /\ (resp.route = "register" /\ IsEmail(resp.data.email) /\ IsLength6(resp.data.password)
        /\ resp.status # 200) =>
       (resp.status = 400 /\ resp.msg = "User already exists")

\* The task an update is meant to leave: the body's present and truthy
\* fields overwritten, everything else as it was.
Overwritten(t, body) ==
  [k \in DOMAIN t |->
     IF k \in {"name", "description", "status", "dueDate"}
        /\ body[k] # Undef /\ body[k] # Str(<<>>)
     THEN body[k] ELSE t[k]]

\* C4: the second step of a PUT that finds its task replaces it by the same
\* task with exactly the present and truthy fields of the body overwritten
\* (owner, id and creation time kept), returns it with 200, and leaves every
\* other task alone.
C4_PartialUpdateFrame ==
  [][\A r \in inflight :
       (r.route = "put" /\ PutUpdate(r)) =>
         \A t \in tasks : t.id = r.id.n =>
           /\ tasks' = (tasks \ {t}) \cup {Overwritten(t, r.body)}
           /\ resp'.status = 200 /\ resp'.data.task = {Overwritten(t, r.body)}
           /\ r.uid = t.user]_vars

\* C4 witness: an update was just answered with a task whose status is the
\* one a status-only body sets, the name still the one given at creation.
C4_Witness ==
  /\ resp.route = "put" /\ resp.status = 200
  /\ \E t \in resp.data.task :
       /\ t.status = Str(<<"d", "o">>) /\ t.name = Str(<<"F", "o">>)
       /\ t.description = Undef /\ t.dueDate = Undef
       /\ t \in tasks

\* C5: when the collection is the same at the count as at the find, the
\* response holds the tasks at positions (page-1)*limit+1 .. min(page*limit, n)
\* of an ordering of the requester's n matching tasks by the sort key, so
\* min(limit, max(0, n-(page-1)*limit)) of them, with totalPages the ceiling
\* of n/limit; page defaults to 1, limit to 10, the order to newest first;
\* and 25 matches with limit 10 give 3 pages, the third of 5 tasks.
C5_Pagination ==
  [][\A r \in inflight :
       (r.route = "list" /\ ListCount(r) /\ r.seen = tasks) =>
         LET page == IF r.q.page = Undef THEN 1 ELSE r.q.page.v
             limit == IF r.q.limit = Undef THEN 10 ELSE r.q.limit.v
             M == {t \in tasks :
                     /\ t.user = r.uid
                     /\ r.q.search # Undef => RegexI(t.name.v, r.q.search.v)
                     /\ r.q.status # Undef => t.status = r.q.status}
             n == Cardinality(M)
             k == Min(limit, Max(0, n - (page - 1) * limit))
             got == resp'.data.tasks
             key(t) == IF r.q.sortBy = Undef THEN t.createdAt ELSE t[r.q.sortBy.v]
             desc == r.q.sortBy = Undef \/ r.q.sortOrder = Str("desc")
             before(x, y) == IF desc THEN key(x) >= key(y) ELSE key(x) <= key(y)
         IN /\ Len(got) = k
            /\ \E s \in Perms(M) :
                 /\ \A i \in 1..(n - 1) : before(s[i], s[i + 1])
                 /\ \A i \in 1..k : got[i] = s[(page - 1) * limit + i]
            /\ resp'.data.totalPages * limit >= n
            /\ (resp'.data.totalPages - 1) * limit < n
            /\ resp'.data.currentPage = page
            /\ LET q == Q(Str(3), Str(10), Undef, Undef, Undef, Undef)
               IN TotalPages(25, q) = 3 /\ Min(Skip(q) + LimitOf(q), 25) - Skip(q) = 5]_vars

\* C5 witness: the second page of one was just sent, for two matching tasks.
C5_Witness ==
  /\ resp.route = "list" /\ resp.status = 200
  /\ Len(resp.data.tasks) = 1 /\ resp.data.totalPages = 2 /\ resp.data.currentPage = 2
  /\ Cardinality({t \in tasks : t.user = resp.uid}) = 2

(* -------------------------- specifications ----------------------------- *)
\* The whole server.
Next ==
  \/ Tick
  \/ \E c \in Credentials : RegisterStart(c[1], c[2])
  \/ \E r \in inflight : RegisterSave(r)
  \/ \E c \in Credentials : Login(c[1], c[2])
  \/ \E tok \in Presentable : GetUser(tok)
  \/ \E tok \in Presentable, q \in ListQueries : ListFind(tok, q)
  \/ \E r \in inflight : ListCount(r)
  \/ \E tok \in Presentable, body \in CreateBodies : Create(tok, body)
  \/ \E tok \in Presentable, id \in PathIds, body \in PutBodies : PutFind(tok, id, body)
  \/ \E r \in inflight : PutUpdate(r)
  \/ \E tok \in Presentable, id \in PathIds : DeleteFind(tok, id)
  \/ \E r \in inflight : DeleteRemove(r)

Spec == Init /\ [][Next]_vars

\* The auth router alone, with every email and password input.
NextAuth ==
  \/ Tick
  \/ \E e \in EmailInputs, p \in RegisterPasswords : RegisterStart(e, p)
  \/ \E r \in inflight : RegisterSave(r)
  \/ \E e \in EmailInputs, p \in LoginPasswords : Login(e, p)
  \/ \E tok \in Presentable : GetUser(tok)

SpecAuth == Init /\ [][NextAuth]_vars

\* Registered clients creating, updating and deleting tasks, with every
\* update body, one update at a time.
NextUpdate ==
  \/ \E c \in Credentials : RegisterStart(c[1], c[2])
  \/ \E r \in inflight : RegisterSave(r)
  \/ \E tok \in issued, body \in CreateBodies : Create(tok, body)
  \/ \E tok \in issued, id \in PathIds, body \in AllPutBodies :
       (\A r \in inflight : r.route # "put") /\ PutFind(tok, id, body)
  \/ \E r \in inflight : PutUpdate(r)
  \/ \E tok \in issued, id \in PathIds : DeleteFind(tok, id)
  \/ \E r \in inflight : DeleteRemove(r)

SpecUpdate == Init /\ [][NextUpdate]_vars

\* A registered client creating and listing tasks, with every list query,
\* one list request at a time.
NextList ==
  \/ Tick
  \/ RegisterStart(Str("a@x.com"), Str("abcdef"))
  \/ \E r \in inflight : RegisterSave(r)
  \/ \E tok \in issued, body \in ListCreateBodies : Create(tok, body)
  \/ \E tok \in issued, q \in AllListQueries :
       (\A r \in inflight : r.route # "list") /\ ListFind(tok, q)
  \/ \E r \in inflight : ListCount(r)

SpecList == Init /\ [][NextList]_vars

====
